---- MODULE Spec2Model ----
(***************************************************************************)
(* node-anvil (src/index.js): Block, Section, Chunk and Region, and the    *)
(* region-file serializer Region.save().                                   *)
(*                                                                         *)
(* Conventions of the model                                                *)
(*  - a JavaScript object is a record; a Block carries a field ref, its    *)
(*    object identity, so that === / Array.includes / Array.indexOf (which *)
(*    compare identities) and Block.equals (which compares contents) are   *)
(*    different relations, as in the code;                                 *)
(*  - null and undefined are both Null (the code only tests them with !x,  *)
(*    === null on array slots that are never undefined, and ||);           *)
(*  - a JavaScript string of binary digits is a sequence of the one-char   *)
(*    strings "0", "1" (and "-"), most significant digit first;            *)
(*  - a BigInt is its canonical binary numeral (no leading zero, zero is   *)
(*    the empty numeral): the packed words do not fit TLC's integers;      *)
(*  - a call that throws leaves its message in ret.thrown.                 *)
(***************************************************************************)
EXTENDS Integers, Sequences, FiniteSets, TLC

VARIABLES
    section,    \* a Section the caller holds directly
    chunk,      \* a Chunk the caller holds directly
    region,     \* the Region
    ret,        \* the last call: [op, args, thrown, value]
    addressed,  \* history: section indices addressed by successful chunk.setBlock calls
    writes,     \* file writes handed to fs.writeFile: [promise, err, state]
    calls,      \* number of calls made so far (bounded in the guards)
    heap        \* number of Section objects constructed so far

vars == <<section, chunk, region, ret, addressed, writes, calls, heap>>

Null == [null |-> TRUE]

NoError == ""

Max(a, b) == IF a >= b THEN a ELSE b

Min(a, b) == IF a <= b THEN a ELSE b

\* JavaScript's % : the remainder takes the sign of the dividend (-5 % 16 is -5).
JsRem(a, b) == IF a >= 0 THEN a % b ELSE -((-a) % b)

\* Math.floor(a / b) for b > 0.
Floor(a, b) == a \div b

\* Math.ceil(a / b) for b > 0.
CeilDiv(a, b) == (a + b - 1) \div b

(***************************************************************************)
(* A for-loop over lo..hi in increasing order. Body(st, i) is one          *)
(* iteration; an iteration that throws sets st.thrown and ends the loop.   *)
(* The range is halved only to keep the evaluation stack shallow: the      *)
(* iterations run in index order, each on the state the previous one left. *)
(***************************************************************************)
RECURSIVE ForRange(_, _, _, _)
ForRange(Body(_, _), lo, hi, st) ==
    IF lo > hi \/ st.thrown # NoError THEN st
    ELSE IF lo = hi THEN Body(st, lo)
    ELSE LET mid == (lo + hi) \div 2
             first == ForRange(Body, lo, mid, st)
         IN  IF first.thrown # NoError THEN first
             ELSE ForRange(Body, mid + 1, hi, first)

(***************************************************************************)
(* Block                                                                   *)
(***************************************************************************)

\* new Block(namespace, id, properties); ref is the identity of the new object.
\* properties is the set of <<key, value>> pairs of the object (properties || {}).
NewBlock(ref, namespace, id, properties) ==
    [ref |-> ref, namespace |-> namespace, id |-> id, properties |-> properties]

\* shallowEqualObjects(a, b): the same keys, each with a === value.
shallowEqualObjects(a, b) == a = b

\* Block.equals(other)
Equals(this, other) ==
    /\ this.namespace = other.namespace
    /\ this.id = other.id
    /\ shallowEqualObjects(this.properties, other.properties)

\* get name()
Name(this) == <<this.namespace, ":", this.id>>

\* a === b on two objects (also Array.includes / indexOf on objects)
Same(a, b) == a.ref = b.ref

(***************************************************************************)
(* Section                                                                 *)
(***************************************************************************)
SectionSlots == 4096

\* The identity of the Block that the constructor of the Section constructed
\* after n others makes for this.air: every Section has an air object of its
\* own. The Blocks the callers make have positive identities.
AirRef(n) == -n

\* new Section(y), when n Sections were constructed before: this.air is a new
\* Block
NewSection(y, n) ==
    [y |-> y,
     blocks |-> [i \in 0..(SectionSlots - 1) |-> Null],
     air |-> NewBlock(AirRef(n), "minecraft", "air", {})]

\* a range check that lets coordinate 16 through
SectionInsideUpTo16(x, y, z) ==
    x >= 0 /\ x <= 16 /\ y >= 0 /\ y <= 16 /\ z >= 0 /\ z <= 16

\* Section.inside(x, y, z)
SectionInside(x, y, z) ==
    x >= 0 /\ x <= 15 /\ y >= 0 /\ y <= 15 /\ z >= 0 /\ z <= 15

SectionIndex(x, y, z) == y * 256 + z * 16 + x

\* Section.setBlock(block, x, y, z): [thrown, section]
SectionSetBlock(this, block, x, y, z) ==
    IF ~SectionInside(x, y, z)
    THEN [thrown |-> "Coordinates are outside section", section |-> this]
    ELSE [thrown |-> NoError,
          section |-> [this EXCEPT !.blocks[SectionIndex(x, y, z)] = block]]

\* Section.getBlock(x, y, z): [thrown, value]
SectionGetBlock(this, x, y, z) ==
    IF ~SectionInside(x, y, z)
    THEN [thrown |-> "Coordinates are outside section", value |-> Null]
    ELSE LET stored == this.blocks[SectionIndex(x, y, z)]
         IN  [thrown |-> NoError, value |-> IF stored = Null THEN this.air ELSE stored]

\* Array.prototype.includes on an array of objects: identity
Includes(arr, obj) == \E k \in 1..Len(arr) : Same(arr[k], obj)

\* Array.prototype.indexOf(obj, from) on an array of objects: identity, 0-based
\* positions, -1 if absent
RECURSIVE IndexOfFrom(_, _, _)
IndexOfFrom(arr, obj, from) ==
    IF from >= Len(arr) THEN -1
    ELSE IF Same(arr[from + 1], obj) THEN from
    ELSE IndexOfFrom(arr, obj, from + 1)

IndexOf(arr, obj) == IndexOfFrom(arr, obj, 0)

\* One iteration of the loop of palette()
PaletteBody(this, st, i) ==
    LET block == this.blocks[i]
    IN  IF block # Null /\ ~Includes(st.palette, block)
        THEN [st EXCEPT !.palette = Append(@, block)]
        ELSE st

\* Section.palette()
Palette(this) ==
    LET start == IF \E i \in DOMAIN this.blocks : this.blocks[i] = Null
                 THEN <<this.air>> ELSE <<>>
        Body(st, i) == PaletteBody(this, st, i)
    IN  ForRange(Body, 0, SectionSlots - 1,
                 [palette |-> start, thrown |-> NoError]).palette

(***************************************************************************)
(* Section.blockstates                                                     *)
(***************************************************************************)
Digit(d) == IF d = 0 THEN "0" ELSE "1"

\* Number.prototype.toString(2)
RECURSIVE ToString2(_)
ToString2(n) ==
    IF n < 0 THEN <<"-">> \o ToString2(-n)
    ELSE IF n < 2 THEN <<Digit(n)>>
    ELSE ToString2(n \div 2) \o <<Digit(n % 2)>>

\* '0'.repeat(k); the code never asks for a negative count (a RangeError):
\* an index has at most as many digits as the palette length, and "-1" has 2.
Repeat0(k) == [i \in 1..k |-> "0"]

\* String.prototype.slice(from, to) for 0 <= from, to <= length
Slice(str, from, to) == SubSeq(str, from + 1, to)

\* the arrow function to_bin of blockstates
to_bin(n, bits) ==
    LET str == ToString2(n) IN Repeat0(bits - Len(str)) \o str

RECURSIVE StripZeros(_)
StripZeros(str) ==
    IF str # <<>> /\ Head(str) = "0" THEN StripZeros(Tail(str)) ELSE str

\* BigInt('0b' + str): a SyntaxError unless str is a non-empty string of binary
\* digits, else the number, as its canonical numeral.
BigInt(str) ==
    IF str = <<>> \/ \E k \in 1..Len(str) : str[k] \notin {"0", "1"}
    THEN [thrown |-> "SyntaxError: Cannot convert to a BigInt", value |-> <<>>]
    ELSE [thrown |-> NoError, value |-> StripZeros(str)]

\* let bits = Math.max(palette.length.toString(2).length, 4)
Bits(palette) == Max(Len(ToString2(Len(palette))), 4)

\* a faulty WordFull: the word is closed one entry early
WordFullAtBoundary(currentLength, bits) == currentLength + bits >= 64

\* if (current.length + bits > 64)
WordFull(currentLength, bits) == currentLength + bits > 64

\* One iteration of the loop of blockstates(): st is [states, current, thrown]
BlockstatesBody(this, palette, bits, st, i) ==
    LET block == this.blocks[i]
        index == IndexOf(palette, IF block = Null THEN this.air ELSE block)
        b == to_bin(index, bits)
    IN  IF WordFull(Len(st.current), bits)
        THEN LET leftover == Len(st.current) + bits - 64
                 word == BigInt(Slice(b, bits - leftover, bits) \o st.current)
             IN  IF word.thrown # NoError
                 THEN [st EXCEPT !.thrown = word.thrown]
                 ELSE [st EXCEPT !.states = Append(@, word.value),
                                 !.current = Slice(b, 0, leftover)]
        ELSE [st EXCEPT !.current = b \o @]

\* Section.blockstates(palette): given is the argument, Null when it is left out.
\* The result is [thrown, states]; palette and bits are the locals of the call.
Blockstates(this, given) ==
    LET palette == IF given = Null THEN Palette(this) ELSE given
        bits == Bits(palette)
        Body(st, i) == BlockstatesBody(this, palette, bits, st, i)
        loop == ForRange(Body, 0, SectionSlots - 1,
                         [states |-> <<>>, current |-> <<>>, thrown |-> NoError])
        last == BigInt(loop.current)
    IN  IF loop.thrown # NoError
        THEN [thrown |-> loop.thrown, states |-> <<>>, palette |-> palette, bits |-> bits]
        ELSE IF last.thrown # NoError
        THEN [thrown |-> last.thrown, states |-> <<>>, palette |-> palette, bits |-> bits]
        ELSE [thrown |-> NoError, states |-> Append(loop.states, last.value),
              palette |-> palette, bits |-> bits]

(***************************************************************************)
(* Chunk                                                                   *)
(***************************************************************************)
DataVersion == 1976

\* new Chunk(x, z)
NewChunk(x, z) == [x |-> x, z |-> z, sections |-> <<>>, version |-> DataVersion]

\* the loop of getSection: the position (from 1) of the first section of
\* y-index y at or after position k, 0 when there is none
RECURSIVE FindSection(_, _, _)
FindSection(sections, y, k) ==
    IF k > Len(sections) THEN 0
    ELSE IF sections[k].y = y THEN k
    ELSE FindSection(sections, y, k + 1)

\* a faulty ChunkGetSection: the comparison section.y === y never succeeds
ChunkGetSectionNoMatch(this, y) ==
    IF y < 0 \/ y > 15
    THEN [thrown |-> "Invalid Y index", at |-> 0]
    ELSE [thrown |-> NoError, at |-> 0]

\* Chunk.getSection(y): [thrown, at]; at is the position of the section that is
\* returned, 0 when the call returns undefined
ChunkGetSection(this, y) ==
    IF y < 0 \/ y > 15
    THEN [thrown |-> "Invalid Y index", at |-> 0]
    ELSE [thrown |-> NoError, at |-> FindSection(this.sections, y, 1)]

\* if (x < 0 || x > 15 || z < 0 || z > 15 || y < 0 || y > 255)
OutsideChunk(x, y, z) == x < 0 \/ x > 15 \/ z < 0 \/ z > 15 \/ y < 0 \/ y > 255

\* Chunk.getBlock(x, y, z): [thrown, value]
ChunkGetBlock(this, x, y, z) ==
    IF OutsideChunk(x, y, z)
    THEN [thrown |-> "Coordinates are outside chunk", value |-> Null]
    ELSE LET found == ChunkGetSection(this, Floor(y, 16))
         IN  IF found.thrown # NoError THEN [thrown |-> found.thrown, value |-> Null]
             ELSE IF found.at = 0 THEN [thrown |-> NoError, value |-> Null]
             ELSE SectionGetBlock(this.sections[found.at], x, JsRem(y, 16), z)

\* Chunk.setBlock(block, x, y, z): [thrown, chunk]
ChunkSetBlock(this, block, x, y, z, n) ==
    IF OutsideChunk(x, y, z)
    THEN [thrown |-> "Coordinates are outside chunk", chunk |-> this, heap |-> n]
    ELSE LET found == ChunkGetSection(this, Floor(y, 16))
             pushed == IF found.at = 0
                       THEN [this EXCEPT !.sections =
                                Append(@, NewSection(Floor(y, 16), n))]
                       ELSE this
             at == IF found.at = 0 THEN Len(pushed.sections) ELSE found.at
             set == SectionSetBlock(pushed.sections[at], block, x, JsRem(y, 16), z)
         IN  IF found.thrown # NoError
             THEN [thrown |-> found.thrown, chunk |-> this, heap |-> n]
             ELSE [thrown |-> set.thrown,
                   chunk |-> [pushed EXCEPT !.sections[at] = set.section],
                   heap |-> IF found.at = 0 THEN n + 1 ELSE n]

(***************************************************************************)
(* Region                                                                  *)
(***************************************************************************)
RegionSlots == 1024

\* The keys z % 32 * 32 + x % 32 can take. Keys 0..1023 are the elements of the
\* array this.chunks; a negative key is a property of the array object, which
\* reads back through chunks[key] but is no element (for..of does not visit it).
ChunkKeys == (1 - RegionSlots)..(RegionSlots - 1)

\* new Region(x, z)
NewRegion(x, z) == [x |-> x, z |-> z, chunks |-> [k \in ChunkKeys |-> Null]]

\* Region.inside(x, y, z, chunk)
RegionInside(this, x, y, z, isChunk) ==
    LET factor == IF isChunk THEN 32 ELSE 512
        rx == Floor(x, factor)
        rz == Floor(z, factor)
    IN  rx = this.x /\ rz = this.z /\ y >= 0 /\ y <= 255

\* z % 32 * 32 + x % 32
ChunkKey(x, z) == JsRem(z, 32) * 32 + JsRem(x, 32)

\* Region.getChunk(x, z): the chunk, or Null (undefined)
RegionGetChunk(this, x, z) ==
    IF ~RegionInside(this, x, 0, z, TRUE) THEN Null
    ELSE this.chunks[ChunkKey(x, z)]

\* Region.addChunk(chunk): [thrown, region]
RegionAddChunk(this, c) ==
    IF ~RegionInside(this, c.x, 0, c.z, TRUE)
    THEN [thrown |-> "Chunk does not belong in this region", region |-> this]
    ELSE [thrown |-> NoError,
          region |-> [this EXCEPT !.chunks[ChunkKey(c.x, c.z)] = c]]

\* Region.setBlock(block, x, y, z): [thrown, region]. The chunk is an object the
\* region holds: what chunk.setBlock does to it shows in this.chunks.
RegionSetBlock(this, block, x, y, z, n) ==
    IF ~RegionInside(this, x, y, z, FALSE)
    THEN [thrown |-> "Coordinates are outside region", region |-> this, heap |-> n]
    ELSE LET cx == Floor(x, 16)
             cz == Floor(z, 16)
             got == RegionGetChunk(this, cx, cz)
             added == IF got = Null THEN RegionAddChunk(this, NewChunk(cx, cz))
                      ELSE [thrown |-> NoError, region |-> this]
             held == IF got = Null THEN NewChunk(cx, cz) ELSE got
             set == ChunkSetBlock(held, block, JsRem(x, 16), y, JsRem(z, 16), n)
         IN  IF added.thrown # NoError
             THEN [thrown |-> added.thrown, region |-> added.region, heap |-> n]
             ELSE [thrown |-> set.thrown,
                   region |-> [added.region EXCEPT !.chunks[ChunkKey(cx, cz)] = set.chunk],
                   heap |-> set.heap]

\* a block argument of fill that is a function: typeof block === 'function'
IsFunc(block) == "fn" \in DOMAIN block

\* block(x, y, z) for the generators the callers of the model pass
CallFn(block, x, y, z) ==
    IF (x + y + z) % 2 = 0
    THEN NewBlock(201, "minecraft", "white_concrete", {})
    ELSE NewBlock(202, "minecraft", "black_concrete", {})

\* for (let v = a; b > a ? v <= b : v >= b; v += b > a ? 1 : -1) Body
RECURSIVE ForAxis(_, _, _, _, _)
ForAxis(Body(_, _), v, a, b, st) ==
    IF st.thrown # NoError \/ ~(IF b > a THEN v <= b ELSE v >= b) THEN st
    ELSE ForAxis(Body, v + (IF b > a THEN 1 ELSE -1), a, b, Body(st, v))

\* the body of the innermost loop of fill: st is [thrown, region, written, heap],
\* and written lists the cells whose setBlock returned
FillCell(block, ignoreOutside, st, x, y, z) ==
    IF ignoreOutside /\ ~RegionInside(st.region, x, y, z, FALSE) THEN st
    ELSE LET set == RegionSetBlock(st.region,
                        IF IsFunc(block) THEN CallFn(block, x, y, z) ELSE block, x, y, z,
                        st.heap)
         IN  [thrown |-> set.thrown,
              region |-> set.region,
              written |-> IF set.thrown = NoError
                          THEN Append(st.written, <<x, y, z>>) ELSE st.written,
              heap |-> set.heap]

\* Region.fill(block, x1, y1, z1, x2, y2, z2, ignoreOutside):
\* [thrown, region, written, heap]
RegionFill(this, block, x1, y1, z1, x2, y2, z2, ignoreOutside, n) ==
    LET start == [thrown |-> NoError, region |-> this, written |-> <<>>, heap |-> n]
        LoopY(st0, y) ==
            LET LoopZ(st1, z) ==
                    LET LoopX(st2, x) == FillCell(block, ignoreOutside, st2, x, y, z)
                    IN  ForAxis(LoopX, x1, x1, x2, st1)
            IN  ForAxis(LoopZ, z1, z1, z2, st0)
    IN  IF ~ignoreOutside /\ ~RegionInside(this, x1, y1, z1, FALSE)
        THEN [start EXCEPT !.thrown = "First coordinates are outside region"]
        ELSE IF ~ignoreOutside /\ ~RegionInside(this, x2, y2, z2, FALSE)
        THEN [start EXCEPT !.thrown = "Second coordinates are outside region"]
        ELSE ForAxis(LoopY, y1, y1, y2, start)

(***************************************************************************)
(* Buffers. A Buffer is a sequence of runs of bytes: a literal run lists   *)
(* its bytes, a fill run is n bytes of one value. The value of a fill run  *)
(* is 0 (Buffer.alloc) or names the compressed payload of a chunk slot,    *)
(* whose bytes the model does not look into: nbt.encode and                *)
(* zlib.deflateSync are outside the repository, and Region.save uses only  *)
(* the length of what they return.                                         *)
(***************************************************************************)
Literal(bytes) == [n |-> Len(bytes), lit |-> bytes, fill |-> 0]

Fill(n, value) == [n |-> n, lit |-> <<>>, fill |-> value]

\* the byte standing for the payload of chunk slot i (no real byte is above 255)
PayloadByte(slot) == 256 + slot

\* Buffer.alloc(n)
Alloc(n) == IF n = 0 THEN <<>> ELSE <<Fill(n, 0)>>

RECURSIVE BufLength(_)
BufLength(buf) == IF buf = <<>> THEN 0 ELSE buf[1].n + BufLength(Tail(buf))

\* buf[offset], for 0 <= offset < buf.length
RECURSIVE ByteAt(_, _)
ByteAt(buf, offset) ==
    IF offset >= buf[1].n THEN ByteAt(Tail(buf), offset - buf[1].n)
    ELSE IF buf[1].lit # <<>> THEN buf[1].lit[offset + 1]
    ELSE buf[1].fill

\* two buffers one after the other; runs of one kind that meet are joined, so
\* that a buffer is a short sequence however many pieces it was built from
Join(a, b) ==
    IF a = <<>> THEN b
    ELSE IF b = <<>> THEN a
    ELSE IF a[Len(a)].lit # <<>> /\ b[1].lit # <<>>
    THEN SubSeq(a, 1, Len(a) - 1) \o <<Literal(a[Len(a)].lit \o b[1].lit)>> \o Tail(b)
    ELSE IF a[Len(a)].lit = <<>> /\ b[1].lit = <<>> /\ a[Len(a)].fill = b[1].fill
    THEN SubSeq(a, 1, Len(a) - 1) \o <<Fill(a[Len(a)].n + b[1].n, b[1].fill)>>
             \o Tail(b)
    ELSE a \o b

RECURSIVE JoinRange(_, _, _)
JoinRange(list, lo, hi) ==
    IF lo > hi THEN <<>>
    ELSE IF lo = hi THEN list[lo]
    ELSE Join(JoinRange(list, lo, (lo + hi) \div 2),
              JoinRange(list, (lo + hi) \div 2 + 1, hi))

\* the first n bytes of buf, for n <= buf.length
RECURSIVE Take(_, _)
Take(buf, n) ==
    IF n = 0 THEN <<>>
    ELSE IF buf[1].n <= n THEN <<buf[1]>> \o Take(Tail(buf), n - buf[1].n)
    ELSE IF buf[1].lit # <<>> THEN <<Literal(SubSeq(buf[1].lit, 1, n))>>
    ELSE <<Fill(n, buf[1].fill)>>

\* Buffer.concat(list, totalLength): the buffers in order, cut or zero-filled
\* to totalLength
Concat(list, totalLength) ==
    LET all == JoinRange(list, 1, Len(list))
        n == BufLength(all)
    IN  IF n = totalLength THEN all
        ELSE IF n < totalLength THEN Join(all, Alloc(totalLength - n))
        ELSE Take(all, totalLength)

\* The bytes buf.writeIntBE(value, offset, byteLength) stores, most significant
\* first (two's complement); a RangeError when value is not a signed integer of
\* that many bytes.
IntBE(value, byteLength) ==
    LET top == value \div (256 ^ (byteLength - 1))
    IN  IF top < -128 \/ top > 127
        THEN [thrown |-> "RangeError: The value of \"value\" is out of range",
              bytes |-> <<>>]
        ELSE [thrown |-> NoError,
              bytes |-> [k \in 1..byteLength |->
                            (value \div (256 ^ (byteLength - k))) % 256]]

(***************************************************************************)
(* Region.save                                                             *)
(***************************************************************************)
SectorSize == 4096

\* One call of the function mapped over chunksData: st is
\* [offsets, totalLength, buffers, thrown]; data is Null or [slot, length], the
\* compressed chunk of a slot and its length in bytes.
SaveRecord(st, data) ==
    IF data = Null THEN [st EXCEPT !.offsets = Append(@, Null)]
    ELSE LET length == 4 + 1 + data.length
             padded == IF length % SectorSize # 0
                       THEN length + SectorSize - (length % SectorSize) ELSE length
             head == IntBE(data.length + 1, 4)
             type == IntBE(2, 1)
         IN  IF head.thrown # NoError
             THEN [st EXCEPT !.offsets = Append(@, <<Floor(st.totalLength, SectorSize),
                                                     CeilDiv(length, SectorSize)>>),
                             !.totalLength = @ + padded,
                             !.thrown = head.thrown]
             ELSE [offsets |-> Append(st.offsets, <<Floor(st.totalLength, SectorSize),
                                                    CeilDiv(length, SectorSize)>>),
                   totalLength |-> st.totalLength + padded,
                   buffers |-> Append(st.buffers,
                       <<Literal(head.bytes \o type.bytes),
                         Fill(data.length, PayloadByte(data.slot))>>
                           \o Alloc(padded - length)),
                   thrown |-> NoError]

\* One call of the function mapped over offsets: st is [buffers, thrown]
SaveLocation(st, off) ==
    IF off = Null THEN [st EXCEPT !.buffers = Append(@, Alloc(4))]
    ELSE LET sector == IntBE(off[1] + 2, 3)
             count == IntBE(off[2], 1)
         IN  IF sector.thrown # NoError THEN [st EXCEPT !.thrown = sector.thrown]
             ELSE IF count.thrown # NoError THEN [st EXCEPT !.thrown = count.thrown]
             ELSE [st EXCEPT !.buffers =
                       Append(@, <<Literal(sector.bytes \o count.bytes)>>)]

\* Region.save up to the buffer final: [thrown, final]. lengths[i] is the length
\* of zlib.deflateSync(nbt.encode('', chunk.save())) for the chunk in slot i.
RegionSave(this, lengths) ==
    LET chunksData == [i \in 0..(RegionSlots - 1) |->
                          IF this.chunks[i] = Null THEN Null
                          ELSE [slot |-> i, length |-> lengths[i]]]
        Record(st, i) == SaveRecord(st, chunksData[i])
        records == ForRange(Record, 0, RegionSlots - 1,
                            [offsets |-> <<>>, totalLength |-> 0, buffers |-> <<>>,
                             thrown |-> NoError])
        chunksBuffer == Concat(records.buffers, records.totalLength)
        Location(st, i) == SaveLocation(st, records.offsets[i + 1])
        locations == ForRange(Location, 0, RegionSlots - 1,
                              [buffers |-> <<>>, thrown |-> NoError])
        locationsHeader == JoinRange(locations.buffers, 1, Len(locations.buffers))
        timestampsHeader == Alloc(SectorSize)
    IN  IF records.thrown # NoError THEN [thrown |-> records.thrown, final |-> <<>>]
        ELSE IF locations.thrown # NoError
        THEN [thrown |-> locations.thrown, final |-> <<>>]
        ELSE [thrown |-> NoError,
              final |-> Concat(<<locationsHeader, timestampsHeader, chunksBuffer>>,
                               2 * SectorSize + BufLength(chunksBuffer))]

(***************************************************************************)
(* The Section the caller holds: blocks, inputs and actions                *)
(***************************************************************************)

\* Blocks of distinct contents, one object each
Wool(k) == NewBlock(k, "minecraft", "wool", {<<"color", k>>})

\* A second object with the content of Wool(1)
WoolTwin == NewBlock(100, "minecraft", "wool", {<<"color", 1>>})

\* Two objects of the same content, and a caller-made air block
Stone1 == NewBlock(101, "minecraft", "stone", {})

Stone2 == NewBlock(102, "minecraft", "stone", {})

UserAir == NewBlock(103, "minecraft", "air", {})

\* A Section after a run of setBlock calls: slot i holds Wool(1 + i mod n), and
\* every fifth slot is left unset when holes is TRUE (n = 0: nothing was set).
FilledSection(n, holes) ==
    [NewSection(0, 0) EXCEPT !.blocks =
        [i \in 0..(SectionSlots - 1) |->
            IF n = 0 \/ (holes /\ i % 5 = 4) THEN Null ELSE Wool(1 + (i % n))]]

FillSizes == {0, 15, 16, 31}

SectionWrites ==
    { <<WoolTwin, 0, 0, 1>>, <<UserAir, 15, 15, 15>>, <<WoolTwin, 16, 0, 0>> }

\* palettes a caller passes to blockstates: none, or its own with one more entry
GivenPalettes(this) == {Null, Append(Palette(this), Wool(99))}

Call(op, args, thrown, value) ==
    [op |-> op, args |-> args, thrown |-> thrown, value |-> value]

InitRest ==
    /\ chunk = NewChunk(0, 0)
    /\ region = NewRegion(0, 0)
    /\ ret = Call("new", <<>>, NoError, Null)
    /\ addressed = {}
    /\ writes = <<>>
    /\ calls = 0
    /\ heap = 1

InitSection ==
    /\ section \in {FilledSection(n, holes) : n \in FillSizes, holes \in BOOLEAN}
    /\ InitRest

DoSectionSetBlock(block, x, y, z) ==
    \E r \in {SectionSetBlock(section, block, x, y, z)} :
        /\ section' = r.section
        /\ ret' = Call("Section.setBlock", <<block, x, y, z>>, r.thrown,
                       IF r.thrown = NoError THEN block ELSE Null)
        /\ UNCHANGED <<chunk, region, addressed, writes, calls, heap>>

DoSectionPalette ==
    /\ ret' = Call("Section.palette", <<>>, NoError, Palette(section))
    /\ UNCHANGED <<section, chunk, region, addressed, writes, calls, heap>>

DoSectionBlockstates(given) ==
    \E r \in {Blockstates(section, given)} :
        /\ ret' = Call("Section.blockstates", <<given>>, r.thrown,
                       [states |-> r.states, palette |-> r.palette, bits |-> r.bits])
        /\ UNCHANGED <<section, chunk, region, addressed, writes, calls, heap>>

NextSection ==
    \/ \E w \in SectionWrites : DoSectionSetBlock(w[1], w[2], w[3], w[4])
    \/ DoSectionPalette
    \/ \E given \in GivenPalettes(section) : DoSectionBlockstates(given)

SpecSection == InitSection /\ [][NextSection]_vars

(***************************************************************************)
(* Claims about Section                                                    *)
(***************************************************************************)
Pow2(k) == 2 ^ k

\* the least k with 2^k >= n, for 1 <= n <= 2^12
CeilLog2(n) == CHOOSE k \in 0..12 : Pow2(k) >= n /\ \A j \in 0..(k - 1) : Pow2(j) < n

\* bit p of the stream whose word k holds bits 64k .. 64k+63, least significant first
StreamBit(states, p) ==
    LET word == states[(p \div 64) + 1]
        q == p % 64
    IN  IF q < Len(word) THEN word[Len(word) - q] ELSE "0"

\* the palette index blockstates packs for slot i
SlotIndex(this, palette, i) ==
    IndexOf(palette, IF this.blocks[i] = Null THEN this.air ELSE this.blocks[i])

ReturnedBlockstates == ret.op = "Section.blockstates" /\ ret.thrown = NoError

\* C1: blockstates() on the section's own palette returns the reference packing:
\* every word is below 2^64 and, for every slot i, the bits-wide field at stream
\* offset i*bits is the palette index of slot i.
C1_ReferencePacking ==
    (ret.op = "Section.blockstates" /\ ret.args = <<Null>>) =>
        /\ ret.thrown = NoError
        /\ Len(ret.value.states) = CeilDiv(SectionSlots * ret.value.bits, 64)
        /\ \A k \in 1..Len(ret.value.states) : Len(ret.value.states[k]) <= 64
        /\ \A i \in 0..(SectionSlots - 1) : \A j \in 0..(ret.value.bits - 1) :
              StreamBit(ret.value.states, i * ret.value.bits + j)
                  = Digit((SlotIndex(section, ret.value.palette, i) \div Pow2(j)) % 2)

\* C2: the entry width of blockstates() is max(ceil(log2(palette length)), 4):
\* 4 for palette lengths 1..16 and 5 for 17..32.
C2_BitsIsCeilLog2 ==
    ret.op = "Section.blockstates" =>
        LET n == Len(ret.value.palette)
        IN  /\ ret.value.bits = Max(CeilLog2(n), 4)
            /\ (n \in 1..16 => ret.value.bits = 4)
            /\ (n \in 17..32 => ret.value.bits = 5)

\* C3: palette() holds no two entries equal under Block.equals, and holds an
\* entry equal to air if and only if some slot is unset.
C3_PaletteDeduplicated ==
    ret.op = "Section.palette" =>
        /\ \A a, b \in 1..Len(ret.value) :
              a # b => ~Equals(ret.value[a], ret.value[b])
        /\ (\E a \in 1..Len(ret.value) : Equals(ret.value[a], section.air))
              <=> (\E i \in DOMAIN section.blocks : section.blocks[i] = Null)

\* C9: blockstates() returns exactly ceil(4096 * bits / 64) words, bits being the
\* entry width of that call (256 words for 4 bits, 320 for 5).
C9_WordCount ==
    ret.op = "Section.blockstates" =>
        /\ ret.thrown = NoError
        /\ Len(ret.value.states) = CeilDiv(SectionSlots * ret.value.bits, 64)
        /\ (ret.value.bits = 4 => Len(ret.value.states) = 256)
        /\ (ret.value.bits = 5 => Len(ret.value.states) = 320)

\* a call that packed 5-bit entries, which straddle word boundaries, after a write
C9_Witness ==
    /\ ReturnedBlockstates
    /\ ret.value.bits = 5
    /\ Len(ret.value.states) = 320
    /\ section.blocks[16] = WoolTwin

(***************************************************************************)
(* The Chunk the caller holds                                              *)
(***************************************************************************)
ChunkWrites ==
    { <<Stone1, 0, 0, 0>>, <<Stone2, 15, 15, 15>>, <<Stone1, 0, 16, 0>>,
      <<Stone2, 1, 255, 2>>, <<Stone1, 16, 0, 0>>, <<Stone1, 0, 256, 0>>,
      <<Stone1, 0, -1, 0>>, <<Stone1, 0, 0, -1>> }

ChunkReads ==
    { <<0, 0, 0>>, <<0, 16, 0>>, <<0, 100, 0>>, <<1, 255, 2>>, <<0, 256, 0>>, <<-1, 0, 0>> }

InitChunk ==
    /\ section = NewSection(0, 0)
    /\ InitRest

DoChunkSetBlock(block, x, y, z) ==
    \E r \in {ChunkSetBlock(chunk, block, x, y, z, heap)} :
        /\ chunk' = r.chunk
        /\ heap' = r.heap
        /\ ret' = Call("Chunk.setBlock", <<block, x, y, z>>, r.thrown, Null)
        /\ addressed' = IF r.thrown = NoError THEN addressed \cup {Floor(y, 16)}
                        ELSE addressed
        /\ UNCHANGED <<section, region, writes, calls>>

DoChunkGetBlock(x, y, z) ==
    \E r \in {ChunkGetBlock(chunk, x, y, z)} :
        /\ ret' = Call("Chunk.getBlock", <<x, y, z>>, r.thrown, r.value)
        /\ UNCHANGED <<section, chunk, region, addressed, writes, calls, heap>>

\* where the callers store a Block that chunk.getBlock has just returned
ChunkCopies == { <<0, 16, 0>> }

NextChunk ==
    \/ \E w \in ChunkWrites : DoChunkSetBlock(w[1], w[2], w[3], w[4])
    \/ \E w \in ChunkCopies :
          /\ ret.op = "Chunk.getBlock" /\ ret.thrown = NoError /\ ret.value # Null
          /\ DoChunkSetBlock(ret.value, w[1], w[2], w[3])
    \/ \E r \in ChunkReads : DoChunkGetBlock(r[1], r[2], r[3])

SpecChunk == InitChunk /\ [][NextChunk]_vars

SectionYs(c) == {c.sections[k].y : k \in 1..Len(c.sections)}

C10_OnePerY ==
    /\ \A a, b \in 1..Len(chunk.sections) :
          a # b => chunk.sections[a].y # chunk.sections[b].y
    /\ SectionYs(chunk) \subseteq 0..15
    /\ SectionYs(chunk) = addressed

\* what one call may do to the sections: none is removed or replaced, only the
\* slot a successful setBlock addresses changes, getBlock changes nothing and
\* returns no block for a section that is absent
C10_Step ==
    /\ Len(chunk'.sections) >= Len(chunk.sections)
    /\ \A k \in 1..Len(chunk.sections) :
          /\ chunk'.sections[k].y = chunk.sections[k].y
          /\ \/ chunk'.sections[k] = chunk.sections[k]
             \/ /\ ret'.op = "Chunk.setBlock" /\ ret'.thrown = NoError
                /\ chunk.sections[k].y = Floor(ret'.args[3], 16)
                /\ chunk'.sections[k].blocks =
                      [chunk.sections[k].blocks EXCEPT
                          ![SectionIndex(ret'.args[2], ret'.args[3] % 16, ret'.args[4])]
                              = ret'.args[1]]
    /\ ret'.thrown # NoError => chunk' = chunk
    /\ ret'.op = "Chunk.getBlock" =>
          /\ chunk' = chunk
          /\ (/\ ~OutsideChunk(ret'.args[1], ret'.args[2], ret'.args[3])
              /\ Floor(ret'.args[2], 16) \notin SectionYs(chunk))
                 => (ret'.thrown = NoError /\ ret'.value = Null)

\* C10: a chunk holds at most one Section per y-index, each in 0..15, exactly
\* those that a successful setBlock addressed, and no call removes or replaces one.
C10_Sections == []C10_OnePerY /\ [][C10_Step]_vars

\* three sections exist and a read of an absent section returned no block
C10_Witness ==
    /\ Len(chunk.sections) = 3
    /\ ret.op = "Chunk.getBlock" /\ ret.thrown = NoError /\ ret.value = Null
    /\ chunk.sections[1].blocks[0] = Stone1

(***************************************************************************)
(* The Region: setBlock, fill, getChunk, addChunk                          *)
(***************************************************************************)
MaxCalls == 2

RegionCoords == { <<0, 0>>, <<1, 2>>, <<-1, 0>>, <<-1, -1>> }

\* block coordinates are given as offsets from the region's first block
At(r, d) == <<512 * r.x + d[1], d[2], 512 * r.z + d[3]>>

SetBlockInputs ==
    { <<Stone1, <<5, 5, 5>>>>, <<Stone2, <<16, 20, 32>>>>, <<Stone1, <<511, 255, 511>>>>,
      <<Stone1, <<512, 0, 0>>>>, <<Stone1, <<0, 256, 0>>>>, <<Stone1, <<0, 0, -1>>>> }

Generator == [fn |-> "concrete"]

\* <<block, first corner, second corner, ignoreOutside>>
FillInputs ==
    { <<Stone2, <<2, 2, 2>>, <<5, 5, 5>>, FALSE>>,
      <<Stone2, <<5, 5, 5>>, <<2, 2, 2>>, FALSE>>,
      <<Stone1, <<17, 15, 14>>, <<14, 16, 17>>, FALSE>>,
      <<Stone1, <<0, 0, 0>>, <<9, 0, 9>>, FALSE>>,
      <<Generator, <<4, 5, 5>>, <<6, 5, 5>>, FALSE>>,
      <<Stone1, <<510, 0, 3>>, <<513, 0, 3>>, TRUE>>,
      <<Stone1, <<510, 0, 3>>, <<513, 0, 3>>, FALSE>>,
      <<Stone1, <<-1, 0, 3>>, <<1, 0, 3>>, FALSE>> }

\* chunk coordinates are given as offsets from the region's first chunk
ChunkAt(r, d) == <<32 * r.x + d[1], 32 * r.z + d[2]>>

ChunkInputs == { <<0, 0>>, <<1, 2>>, <<32, 0>> }

InitRegion ==
    /\ section = NewSection(0, 0)
    /\ chunk = NewChunk(0, 0)
    /\ region \in {NewRegion(c[1], c[2]) : c \in RegionCoords}
    /\ ret = Call("new", <<>>, NoError, Null)
    /\ addressed = {}
    /\ writes = <<>>
    /\ calls = 0
    /\ heap = 1

DoRegionSetBlock(block, x, y, z) ==
    /\ calls < MaxCalls
    /\ \E r \in {RegionSetBlock(region, block, x, y, z, heap)} :
        /\ region' = r.region
        /\ heap' = r.heap
        /\ ret' = Call("Region.setBlock", <<block, x, y, z>>, r.thrown, Null)
    /\ calls' = calls + 1
    /\ UNCHANGED <<section, chunk, addressed, writes>>

DoRegionFill(block, p, q, ignoreOutside) ==
    /\ calls < MaxCalls
    /\ \E r \in {RegionFill(region, block, p[1], p[2], p[3], q[1], q[2], q[3],
                            ignoreOutside, heap)} :
        /\ region' = r.region
        /\ heap' = r.heap
        /\ ret' = Call("Region.fill", <<block, p, q, ignoreOutside>>, r.thrown, r.written)
    /\ calls' = calls + 1
    /\ UNCHANGED <<section, chunk, addressed, writes>>

DoRegionGetChunk(cx, cz) ==
    /\ calls < MaxCalls
    /\ ret' = Call("Region.getChunk", <<cx, cz>>, NoError, RegionGetChunk(region, cx, cz))
    /\ calls' = calls + 1
    /\ UNCHANGED <<section, chunk, region, addressed, writes, heap>>

DoRegionAddChunk(c) ==
    /\ calls < MaxCalls
    /\ \E r \in {RegionAddChunk(region, c)} :
        /\ region' = r.region
        /\ ret' = Call("Region.addChunk", <<c>>, r.thrown, Null)
    /\ calls' = calls + 1
    /\ UNCHANGED <<section, chunk, addressed, writes, heap>>

NextRegion ==
    \/ \E i \in SetBlockInputs :
          DoRegionSetBlock(i[1], At(region, i[2])[1], At(region, i[2])[2],
                           At(region, i[2])[3])
    \/ \E i \in FillInputs :
          DoRegionFill(i[1], At(region, i[2]), At(region, i[3]), i[4])
    \/ \E d \in ChunkInputs :
          DoRegionGetChunk(ChunkAt(region, d)[1], ChunkAt(region, d)[2])
    \/ \E d \in ChunkInputs :
          DoRegionAddChunk(NewChunk(ChunkAt(region, d)[1], ChunkAt(region, d)[2]))

SpecRegion == InitRegion /\ [][NextRegion]_vars

\* (x, y, z) is a block of region r: floor(x/512) = r.x, floor(z/512) = r.z, y in 0..255
InRegion(r, x, y, z) ==
    /\ 512 * r.x <= x /\ x < 512 * r.x + 512
    /\ 512 * r.z <= z /\ z < 512 * r.z + 512
    /\ 0 <= y /\ y <= 255

\* the slot of the 1024-slot grid for chunk (cx, cz): (cz mod 32) * 32 + (cx mod 32)
GridIndex(cx, cz) == (cz % 32) * 32 + (cx % 32)

\* C6: Region.setBlock at a block of the region succeeds and stores the block at
\* chunk-local (x mod 16, y, z mod 16) of chunk (floor(x/16), floor(z/16)), held
\* at grid index (cz mod 32)*32 + (cx mod 32), where getChunk finds it.
C6_SetBlockStores ==
    (/\ ret.op = "Region.setBlock"
     /\ InRegion(region, ret.args[2], ret.args[3], ret.args[4])) =>
        LET x == ret.args[2]
            y == ret.args[3]
            z == ret.args[4]
            cx == x \div 16
            cz == z \div 16
            held == region.chunks[GridIndex(cx, cz)]
        IN  /\ ret.thrown = NoError
            /\ held # Null
            /\ held.x = cx /\ held.z = cz
            /\ ChunkGetBlock(held, x % 16, y, z % 16).value = ret.args[1]
            /\ RegionGetChunk(region, cx, cz) = held

\* the cells of the inclusive cuboid between two corners
Cuboid(p, q) ==
    { <<x, y, z>> : x \in Min(p[1], q[1])..Max(p[1], q[1]),
                    y \in Min(p[2], q[2])..Max(p[2], q[2]),
                    z \in Min(p[3], q[3])..Max(p[3], q[3]) }

\* the cuboid and the cells around it
Envelope(p, q) ==
    { <<x, y, z>> : x \in (Min(p[1], q[1]) - 1)..(Max(p[1], q[1]) + 1),
                    y \in (Min(p[2], q[2]) - 1)..(Max(p[2], q[2]) + 1),
                    z \in (Min(p[3], q[3]) - 1)..(Max(p[3], q[3]) + 1) }

\* what the region stores for block (x, y, z): the Block in the slot, or Null
\* when the slot is unset or the chunk or the section does not exist
BlockAt(r, x, y, z) ==
    LET held == r.chunks[GridIndex(x \div 16, z \div 16)]
        at == IF held = Null THEN 0 ELSE FindSection(held.sections, y \div 16, 1)
    IN  IF ~InRegion(r, x, y, z) \/ held = Null \/ at = 0 THEN Null
        ELSE held.sections[at].blocks[SectionIndex(x % 16, y % 16, z % 16)]

GridIndexes(cells) == {GridIndex(c[1] \div 16, c[3] \div 16) : c \in cells}

C7_Step ==
    (/\ ret'.op = "Region.fill"
     /\ ~IsFunc(ret'.args[1])
     /\ InRegion(region, ret'.args[2][1], ret'.args[2][2], ret'.args[2][3])
     /\ InRegion(region, ret'.args[3][1], ret'.args[3][2], ret'.args[3][3])) =>
        LET cells == Cuboid(ret'.args[2], ret'.args[3])
        IN  /\ ret'.thrown = NoError
            /\ {ret'.value[k] : k \in 1..Len(ret'.value)} = cells
            /\ Len(ret'.value) = Cardinality(cells)
            /\ \A c \in Envelope(ret'.args[2], ret'.args[3]) :
                  BlockAt(region', c[1], c[2], c[3]) =
                      IF c \in cells THEN ret'.args[1] ELSE BlockAt(region, c[1], c[2], c[3])
            /\ \A k \in ChunkKeys \ GridIndexes(cells) :
                  region'.chunks[k] = region.chunks[k]

\* C7: fill with a Block and both corners in the region writes the block to every
\* cell of the inclusive cuboid, each once, and to no other cell, whichever
\* corner is smaller on each axis.
C7_FillCuboid == [][C7_Step]_vars

(***************************************************************************)
(* Saving a region: SpecSave. The region starts with some of its chunks    *)
(* added; each save draws the length of every present chunk's compressed   *)
(* payload, and each file write handed to fs.writeFile completes later,    *)
(* with or without an error.                                               *)
(***************************************************************************)
MaxWrites == 1

SaveRegionCoords == { <<0, 0>>, <<-1, 0>> }

SaveChunkInputs == { <<0, 0>>, <<1, 2>> }

\* 4091 + 5 bytes fill one sector exactly, 4092 + 5 need two; 520187 + 5 bytes
\* need 127 sectors and 520188 + 5 need 128
PayloadLens == { 4091, 4092, 520187, 520188 }

Files == { "", "r.0.0.mca" }

WriteErrors == { NoError, "ENOSPC" }

\* this after this.addChunk(new Chunk(..)) for each of the chunks ds
RECURSIVE AddChunks(_, _)
AddChunks(this, ds) ==
    IF ds = {} THEN this
    ELSE LET d == CHOOSE e \in ds : TRUE
             c == NewChunk(ChunkAt(this, d)[1], ChunkAt(this, d)[2])
         IN  AddChunks(RegionAddChunk(this, c).region, ds \ {d})

\* new Region(c) with the chunks ds added
RegionWith(c, ds) == AddChunks(NewRegion(c[1], c[2]), ds)

\* the slots of this.chunks that hold a chunk
Present(this) == { i \in 0..(RegionSlots - 1) : this.chunks[i] # Null }

InitSave ==
    /\ section = NewSection(0, 0)
    /\ chunk = NewChunk(0, 0)
    /\ region \in { RegionWith(c, ds) : c \in SaveRegionCoords,
                                        ds \in SUBSET SaveChunkInputs }
    /\ ret = Call("new", <<>>, NoError, Null)
    /\ addressed = {}
    /\ writes = <<>>
    /\ calls = 0
    /\ heap = 1

\* region.save(file): the buffer is returned, or handed to fs.writeFile with a
\* callback and a pending promise is returned
DoRegionSave(file, lengths) ==
    /\ calls < MaxCalls
    /\ file # "" => Len(writes) < MaxWrites
    /\ \E r \in {RegionSave(region, lengths)} :
        IF r.thrown # NoError
        THEN /\ ret' = Call("Region.save", <<file, lengths>>, r.thrown, Null)
             /\ writes' = writes
        ELSE IF file # ""
        THEN /\ writes' = Append(writes, [file |-> file, data |-> r.final,
                                          io |-> "in flight", err |-> NoError,
                                          promise |-> "pending", result |-> Null,
                                          uncaught |-> NoError])
             /\ ret' = Call("Region.save", <<file, lengths>>, NoError,
                            [promise |-> Len(writes) + 1])
        ELSE /\ ret' = Call("Region.save", <<file, lengths>>, NoError, r.final)
             /\ writes' = writes
    /\ calls' = calls + 1
    /\ UNCHANGED <<section, chunk, region, addressed, heap>>

\* the callback given to fs.writeFile: err => { if (err) throw err; resolve(final); }
DoWriteCallback(k, err) ==
    /\ k \in 1..Len(writes)
    /\ writes[k].io = "in flight"
    /\ writes' = [writes EXCEPT ![k] =
            IF err # NoError
            THEN [@ EXCEPT !.io = "failed", !.err = err, !.uncaught = err]
            ELSE [@ EXCEPT !.io = "written", !.promise = "resolved",
                           !.result = [value |-> writes[k].data]]]
    /\ UNCHANGED <<section, chunk, region, ret, addressed, calls, heap>>

NextSave ==
    \/ \E file \in Files : \E lengths \in [Present(region) -> PayloadLens] :
           DoRegionSave(file, lengths)
    \/ \E k \in 1..MaxWrites : \E err \in WriteErrors : DoWriteCallback(k, err)

SpecSave == InitSave /\ [][NextSave]_vars

\* the number a big-endian run of bytes of the buffer stands for
RECURSIVE UIntBE(_, _, _)
UIntBE(buf, offset, byteLength) ==
    IF byteLength = 0 THEN 0
    ELSE UIntBE(buf, offset, byteLength - 1) * 256 + ByteAt(buf, offset + byteLength - 1)

\* sectors the record of a payload of len bytes needs
Sectors(len) == CeilDiv(4 + 1 + len, SectorSize)

RECURSIVE SumSectors(_, _)
SumSectors(lengths, slots) ==
    IF slots = {} THEN 0
    ELSE LET i == CHOOSE j \in slots : TRUE
         IN  Sectors(lengths[i]) + SumSectors(lengths, slots \ {i})

\* the layout of C4 for one buffer
Layout(final, lengths) ==
    LET present == DOMAIN lengths
        total == SumSectors(lengths, present)
    IN  /\ BufLength(final) = 2 * SectorSize + SectorSize * total
        /\ \A i \in 0..(RegionSlots - 1) :
            LET o == UIntBE(final, 4 * i, 3)
                c == ByteAt(final, 4 * i + 3)
            IN  IF i \notin present THEN o = 0 /\ c = 0
                ELSE /\ o >= 2
                     /\ o = 2 + SumSectors(lengths, { j \in present : j < i })
                     /\ c = Sectors(lengths[i])
                     /\ UIntBE(final, SectorSize * o, 4) = lengths[i] + 1
                     /\ ByteAt(final, SectorSize * o + 4) = 2
                     /\ ByteAt(final, SectorSize * o + 5) = PayloadByte(i)
                     /\ ByteAt(final, SectorSize * o + 4 + lengths[i]) = PayloadByte(i)

\* C4: for every set of present chunks and every payload length whose record
\* needs 1 to 255 sectors, Region.save builds a buffer in which entry i of the
\* location table is zero iff slot i is empty and otherwise gives the sector
\* offset (at least 2) and sector count of the chunk's record, the records
\* follow each other in slot order from sector 2 without gap or overlap, and
\* the length is 8192 + 4096 * (sum of the counts).
C4_SaveLayout ==
    (/\ ret.op = "Region.save"
     /\ \A i \in DOMAIN ret.args[2] : Sectors(ret.args[2][i]) \in 1..255)
    => /\ ret.thrown = NoError
       /\ ret.args[1] = "" => Layout(ret.value, ret.args[2])
       /\ ret.args[1] # "" => Layout(writes[ret.value.promise].data, ret.args[2])

\* C5: when the write of Region.save(file) fails, the returned promise is
\* rejected with the error and the error is not thrown inside the callback.
C5_WriteFailureRejects ==
    \A k \in 1..Len(writes) :
        writes[k].io = "failed" =>
            /\ writes[k].promise = "rejected"
            /\ writes[k].result = [error |-> writes[k].err]
            /\ writes[k].uncaught = NoError

(***************************************************************************)
(* Writes at all three levels: SpecWrites. Most of the coordinates lie     *)
(* outside the range of the object written to.                             *)
(***************************************************************************)
WritesSection ==
    { <<Stone1, 0, 0, 0>>, <<Stone2, 16, 0, 0>>, <<Stone2, 0, -1, 0>>, <<Stone2, 0, 0, 16>> }

WritesChunk ==
    { <<Stone1, 0, 16, 0>>, <<Stone2, 0, 256, 0>>, <<Stone2, 16, 0, 0>>, <<Stone2, 0, 0, -1>> }

WritesRegion ==
    { <<Stone1, <<5, 5, 5>>>>, <<Stone2, <<512, 0, 0>>>>, <<Stone2, <<0, 256, 0>>>>,
      <<Stone2, <<0, 0, -1>>>> }

WritesFill ==
    { <<Stone1, <<2, 2, 2>>, <<3, 3, 3>>, FALSE>>,
      <<Stone2, <<510, 0, 3>>, <<513, 0, 3>>, FALSE>>,
      <<Stone2, <<-1, 0, 3>>, <<1, 0, 3>>, FALSE>>,
      <<Stone2, <<0, 255, 0>>, <<0, 256, 0>>, FALSE>>,
      <<Stone2, <<510, 0, 3>>, <<513, 0, 3>>, TRUE>> }

WritesRegionCoords == { <<0, 0>>, <<-1, -1>> }

InitWrites ==
    /\ section = NewSection(0, 0)
    /\ chunk = NewChunk(0, 0)
    /\ region \in {NewRegion(c[1], c[2]) : c \in WritesRegionCoords}
    /\ ret = Call("new", <<>>, NoError, Null)
    /\ addressed = {}
    /\ writes = <<>>
    /\ calls = 0
    /\ heap = 1

NextWrites ==
    \/ \E w \in WritesSection : DoSectionSetBlock(w[1], w[2], w[3], w[4])
    \/ \E w \in WritesChunk : DoChunkSetBlock(w[1], w[2], w[3], w[4])
    \/ \E i \in WritesRegion :
          DoRegionSetBlock(i[1], At(region, i[2])[1], At(region, i[2])[2],
                           At(region, i[2])[3])
    \/ \E i \in WritesFill :
          DoRegionFill(i[1], At(region, i[2]), At(region, i[3]), i[4])

SpecWrites == InitWrites /\ [][NextWrites]_vars

\* the call of this step has coordinates out of the range of what it writes to
OutOfRange(call, r) ==
    \/ /\ call.op = "Section.setBlock"
       /\ \E k \in 2..4 : call.args[k] \notin 0..15
    \/ /\ call.op = "Chunk.setBlock"
       /\ \/ call.args[2] \notin 0..15
          \/ call.args[3] \notin 0..255
          \/ call.args[4] \notin 0..15
    \/ /\ call.op = "Region.setBlock"
       /\ ~InRegion(r, call.args[2], call.args[3], call.args[4])
    \/ /\ call.op = "Region.fill"
       /\ call.args[4] = FALSE
       /\ \/ ~InRegion(r, call.args[2][1], call.args[2][2], call.args[2][3])
          \/ ~InRegion(r, call.args[3][1], call.args[3][2], call.args[3][3])

C8_Step ==
    OutOfRange(ret', region) =>
        /\ ret'.thrown # NoError
        /\ section' = section
        /\ chunk' = chunk
        /\ region' = region
        /\ heap' = heap

\* C8: a write with coordinates out of range (Section.setBlock outside 0..15,
\* Chunk.setBlock with x or z outside 0..15 or y outside 0..255, Region.setBlock
\* outside the region, Region.fill with ignoreOutside = false and a corner
\* outside the region) fails with an error and changes nothing: no chunk or
\* section is created and no slot changes.
C8_OutOfRangeWritesNothing == [][C8_Step]_vars

\* a fill with a corner outside has failed on a region, a chunk and a section
\* that hold blocks written before
C8_Witness ==
    /\ ret.op = "Region.fill"
    /\ OutOfRange(ret, region)
    /\ ret.thrown # NoError
    /\ \E k \in 0..(RegionSlots - 1) : region.chunks[k] # Null
    /\ chunk.sections # <<>>
    /\ section.blocks[0] = Stone1

====
